---- MODULE Spec2Model ----
(***************************************************************************)
(* Batch dispatcher of qm9_orca_work/qm9_orca_work_mole:                   *)
(*   run_batch_manager.py        ("base":  staging, rankfile, checkpoint)  *)
(*   run_batch_manager_intel.py  ("intel": taskset, .err scan, no          *)
(*                                checkpoint, run_task stages its input)   *)
(* main fills a multiprocessing.Queue with (mol_id, method) units and one  *)
(* None per worker, forks the workers, joins them.  Each worker is an OS   *)
(* process with its own copy of the checkpoint dict; the workers share the *)
(* queue and the file system only.                                         *)
(*                                                                         *)
(* Spec starts where main stages the inputs of the range (base, line 209;  *)
(* intel, line 226) with the checkpoint already loaded.  The statements of *)
(* main before that point (argv, ensure_dirs, load_checkpoint,             *)
(* print_progress, and the argument list of the call at line 209) are not  *)
(* part of Spec.                                                           *)
(*                                                                         *)
(* Further specifications, each over the same variables:                   *)
(*   FairSpec   Spec with every process scheduled                          *)
(*   MainSpec   main of run_batch_manager.py from its first statement      *)
(*   BindSpec   get_cpu_ranges and create_rankfile                         *)
(*   CompSpec   is_completed                                               *)
(*   PatchSpec  the %pal patch of run_task                                 *)
(*   ScanSpec   the error scan of run_batch_manager_intel.py run_task      *)
(*   ProgSpec   print_progress                                             *)
(*   RoundSpec  save_checkpoint followed by load_checkpoint                *)
(*   CleanSpec  clean_orca_files of clean_work_dir.py                      *)
(***************************************************************************)
EXTENDS Integers, Sequences, FiniteSets, TLC

\* ------------------------------------------------------------------ bounds
MaxId == 1
MaxConcurrency == 2
MaxFaults == 1

\* --------------------------------------------------------------- constants
METHODS == <<"mp2", "ccsd", "ccsdt">>

SCRIPTS == {"base", "intel"}

Ids == 1..MaxId
Slots == 0..(MaxConcurrency - 1)
MethodSet == {METHODS[i] : i \in 1..Len(METHODS)}
Units == Ids \X MethodSet
NoUnit == <<0, "none">>

VARIABLES
  script,      \* which script the operator runs
  start_id,    \* sys.argv[1]
  end_id,      \* sys.argv[2]
  concurrency, \* sys.argv[3]
  mpc,         \* position of main
  started,     \* number of worker processes main has started
  joined,      \* number of worker processes main has joined
  mainck,      \* main's checkpoint dict (result of load_checkpoint)
  q,           \* the multiprocessing.Queue: units, then "None" sentinels
  wpc,         \* position of each worker process
  cur,         \* the unit a worker's run_task is working on
  ckmem,       \* each worker process's own copy of the checkpoint dict
  molfiles,    \* files in the molecule directories: <<unit, ext>>
  scratch,     \* files in ORCA_FILES_DIR: <<unit, ext>>
  rankfiles,   \* the rankfile_slot<i>.txt present in ORCA_FILES_DIR, by path
  finalOut,    \* .out copies in FINAL_OUT_DIR: units
  finalMkl,    \* .mkl copies in FINAL_MKL_DIR: units
  ckfile,      \* CHECKPOINT_FILE: [exists, data (tokens)]
  log,         \* history per unit (what happened to it in this batch)
  atStart,     \* history: units is_completed held for when the batch began
  faults,      \* abnormal outcomes of the environment so far
  fn           \* a function called on its own: its arguments and what it returned

vars == <<script, start_id, end_id, concurrency, mpc, started, joined, mainck,
          q, wpc, cur, ckmem, molfiles, scratch, rankfiles, finalOut, finalMkl,
          ckfile, log, atStart, faults, fn>>

\* ------------------------------------------------ checkpoint dict and JSON
\* A checkpoint dict keeps insertion order: a sequence of <<key, methods>>,
\* methods a sequence of <<method, flag>>.

RECURSIVE IndexOf(_, _, _)
IndexOf(s, k, i) ==
  IF i > Len(s) THEN 0
  ELSE IF s[i][1] = k THEN i
  ELSE IndexOf(s, k, i + 1)

\* d[k] = v on an insertion-ordered dict
DictPut(d, k, v) ==
  LET i == IndexOf(d, k, 1)
  IN IF i = 0 THEN Append(d, <<k, v>>) ELSE [d EXCEPT ![i] = <<k, v>>]

\* d.get(k, default)
DictGet(d, k, default) ==
  LET i == IndexOf(d, k, 1)
  IN IF i = 0 THEN default ELSE d[i][2]

\* str(mol_id)
MolKey(mol_id) == ToString(mol_id)

\* checkpoint.get(str(mol_id), {}).get(method, False)
CkFlag(checkpoint, mol_id, method) ==
  DictGet(DictGet(checkpoint, MolKey(mol_id), <<>>), method, FALSE)

\* lines 184-187: checkpoint[mol_key][method] = True
CkMark(checkpoint, mol_id, method) ==
  LET mol_key == MolKey(mol_id)
      c1 == IF IndexOf(checkpoint, mol_key, 1) = 0
            THEN Append(checkpoint, <<mol_key, <<>>>>)
            ELSE checkpoint
  IN DictPut(c1, mol_key, DictPut(DictGet(c1, mol_key, <<>>), method, TRUE))

BoolTok(b) == IF b THEN "true" ELSE "false"

RECURSIVE DumpMethods(_, _)
DumpMethods(ms, i) ==
  IF i > Len(ms) THEN <<>>
  ELSE <<ms[i][1], BoolTok(ms[i][2])>> \o DumpMethods(ms, i + 1)

RECURSIVE DumpMols(_, _)
DumpMols(d, i) ==
  IF i > Len(d) THEN <<>>
  ELSE <<d[i][1], "{">> \o DumpMethods(d[i][2], 1) \o <<"}">> \o DumpMols(d, i + 1)

\* json.dump(checkpoint, f, indent=2): the text as a sequence of tokens
JsonDump(d) == <<"{">> \o DumpMols(d, 1) \o <<"}">>

Braces == {"{", "}"}
BoolToks == {"true", "false"}
ParseFail == [ok |-> FALSE, val |-> <<>>, next |-> 0]

RECURSIVE LoadMethods(_, _, _)
LoadMethods(t, i, acc) ==
  IF i > Len(t) THEN ParseFail
  ELSE IF t[i] = "}" THEN [ok |-> TRUE, val |-> acc, next |-> i + 1]
  ELSE IF t[i] \in Braces \cup BoolToks \/ i + 1 > Len(t) THEN ParseFail
  ELSE IF t[i + 1] \notin BoolToks THEN ParseFail
  ELSE LoadMethods(t, i + 2, DictPut(acc, t[i], t[i + 1] = "true"))

RECURSIVE LoadMols(_, _, _)
LoadMols(t, i, acc) ==
  IF i > Len(t) THEN ParseFail
  ELSE IF t[i] = "}"
    THEN IF i = Len(t) THEN [ok |-> TRUE, val |-> acc, next |-> i + 1]
         ELSE ParseFail   \* json: "Extra data"
  ELSE IF t[i] \in Braces \cup BoolToks \/ i + 1 > Len(t) THEN ParseFail
  ELSE IF t[i + 1] # "{" THEN ParseFail
  ELSE LET r == LoadMethods(t, i + 2, <<>>)
       IN IF r.ok THEN LoadMols(t, r.next, DictPut(acc, t[i], r.val))
          ELSE ParseFail

\* json.load(f) on the text of the checkpoint file
JsonLoad(t) ==
  IF Len(t) >= 1 /\ t[1] = "{" THEN LoadMols(t, 2, <<>>) ELSE ParseFail

\* ------------------------------------------------------------ file system
Exts == {"inp", "out", "gbw", "mkl", "err", "property.txt"}

\* the decimal digits of n >= 0
RECURSIVE Digits(_)
Digits(n) == IF n < 10 THEN <<ToString(n)>> ELSE Digits(n \div 10) \o <<ToString(n % 10)>>

\* f"{mol_id:06d}": zero-padded to six digits, longer when the number is
RECURSIVE Pad06(_)
Pad06(d) == IF Len(d) >= 6 THEN d ELSE Pad06(<<"0">> \o d)

\* the characters of a method name
MethodChars(method) ==
  CASE method = "mp2" -> <<"m", "p", "2">>
    [] method = "ccsd" -> <<"c", "c", "s", "d">>
    [] method = "ccsdt" -> <<"c", "c", "s", "d", "t">>
    [] OTHER -> <<method>>

\* A job basename that ends with the method name.
JobBase_NoBasis(mol_id, method) ==
  <<"dsgdb9nsd", "_">> \o Pad06(Digits(mol_id)) \o <<"_">> \o MethodChars(method)

\* job_base, run_batch_manager.py:116-118: f"dsgdb9nsd_{mol_id:06d}_{method}_{BASIS}"
JobBase(mol_id, method) ==
  <<"dsgdb9nsd", "_">> \o Pad06(Digits(mol_id)) \o <<"_">> \o MethodChars(method)
    \o <<"_", "631gs">>

\* the name of the file of unit f[1] with extension f[2]
FileName(f) ==
  JobBase(f[1][1], f[1][2])
    \o (IF f[2] = "property.txt" THEN <<"_", "property", ".", "txt">> ELSE <<".", f[2]>>)

IsPrefix(p, name) == Len(p) <= Len(name) /\ SubSeq(name, 1, Len(p)) = p

\* the files of ORCA_FILES_DIR that glob(job_base + "*") returns for unit u
GlobJob(files, u) == {f \in files : IsPrefix(JobBase(u[1], u[2]), FileName(f))}

\* f.endswith(".txt")
EndsWithTxt(ext) == ext = "property.txt"

\* open(path, 'w') ... close(): one write of the buffered text at offset 0.
\* Bytes of the old content beyond the new text stay, unless truncated before.
WriteAt0(old, new) == new \o SubSeq(old, Len(new) + 1, Len(old))

\* A loader that never reads the file.
load_checkpoint_AlwaysEmpty(file) == <<>>

\* run_batch_manager.py:45-50
load_checkpoint(file) == IF file.exists THEN JsonLoad(file.data).val ELSE <<>>

\* a checkpoint entry, when there is one, decides before the disk is looked at
is_completed_EntryFirst(mol_id, method, checkpoint) ==
  IF IndexOf(DictGet(checkpoint, MolKey(mol_id), <<>>), method, 1) # 0
  THEN CkFlag(checkpoint, mol_id, method)
  ELSE <<<<mol_id, method>>, "out">> \in molfiles

\* run_batch_manager.py:57-63
is_completed(mol_id, method, checkpoint) ==
  IF <<<<mol_id, method>>, "out">> \in molfiles THEN TRUE
  ELSE CkFlag(checkpoint, mol_id, method)

\* "the checkpoint file records u as complete": it parses, and u's flag is true
Records(file, u) ==
  /\ file.exists
  /\ JsonLoad(file.data).ok
  /\ CkFlag(JsonLoad(file.data).val, u[1], u[2])

RECURSIVE MarkAll(_, _)
MarkAll(d, us) ==
  IF us = {} THEN d
  ELSE LET u == CHOOSE x \in us : TRUE
       IN MarkAll(CkMark(d, u[1], u[2]), us \ {u})

\* ------------------------------------------------------------------- queue
None == NoUnit

RangeUnits == {u \in Units : start_id <= u[1] /\ u[1] <= end_id}

\* lines 221-224: for mol in range(start_id, end_id + 1): for m in METHODS
WorkItems(lo, hi) ==
  [k \in 1..((hi - lo + 1) * Len(METHODS)) |->
     <<lo + ((k - 1) \div Len(METHODS)), METHODS[((k - 1) % Len(METHODS)) + 1]>>]

\* one sentinel fewer than there are workers: range(concurrency - 1)
Sentinels_OneShort(c) == [k \in 1..(c - 1) |-> None]

\* lines 225-226: for _ in range(concurrency): q.put(None)
Sentinels(c) == [k \in 1..c |-> None]

\* The sentinels put before the work units.
Filled_SentinelsFirst(lo, hi, c) == Sentinels(c) \o WorkItems(lo, hi)

\* lines 219-226: what main has put on the queue, in the order of the puts
Filled(lo, hi, c) == WorkItems(lo, hi) \o Sentinels(c)

\* q.get(): the item handed out, and the queue it leaves
QueueItem(queue) == Head(queue)

\* a get that reads the head and leaves it in the queue
QueueRest_Peek(queue) == queue

QueueRest(queue) == Tail(queue)

InQueue(u) == Cardinality({k \in 1..Len(q) : q[k] = u})

\* ------------------------------------------------------------------- Init
\* no function is being called on its own
NoCall == [op |-> "none"]

NoLog == [deq |-> 0, staged |-> 0, runs |-> 0, ret |-> "none", pat |-> FALSE,
          pp |-> FALSE, saved |-> FALSE, conv |-> "none"]

Init ==
  /\ script \in SCRIPTS
  /\ start_id \in Ids
  /\ end_id \in start_id..MaxId
  /\ concurrency \in 1..MaxConcurrency
  /\ \E absent \in {{}, {<<start_id, "ccsd">>}}, prev \in {{}, {<<start_id, "mp2">>}} :
       /\ molfiles = ((Units \ absent) \X {"inp"}) \cup (prev \X {"inp", "out", "gbw"})
       /\ finalOut = prev
       /\ finalMkl = prev
       /\ IF script = "base" /\ prev # {}
          THEN ckfile \in {[exists |-> FALSE, data |-> <<>>],
                           [exists |-> TRUE, data |-> JsonDump(MarkAll(<<>>, prev))]}
          ELSE ckfile = [exists |-> FALSE, data |-> <<>>]
  /\ mainck = load_checkpoint(ckfile)
  /\ atStart = {u \in RangeUnits : is_completed(u[1], u[2], mainck)}
  /\ mpc = IF script = "base" THEN "stage" ELSE "fill"
  /\ started = 0
  /\ joined = 0
  /\ q = <<>>
  /\ wpc = [w \in Slots |-> "unborn"]
  /\ cur = [w \in Slots |-> NoUnit]
  /\ ckmem = [w \in Slots |-> <<>>]
  /\ scratch = {}
  /\ rankfiles = {}
  /\ log = [u \in Units |-> NoLog]
  /\ faults = 0
  /\ fn = NoCall

\* -------------------------------------------------------------------- main
\* run_batch_manager.py:94-109 and the branch on its result, 209-211
MainStage ==
  /\ mpc = "stage"
  /\ LET copied == {u \in RangeUnits : <<u, "inp">> \in molfiles}
     IN /\ scratch' = scratch \cup (copied \X {"inp"})
        /\ log' = [u \in Units |->
                     IF u \in copied THEN [log[u] EXCEPT !.staged = @ + 1] ELSE log[u]]
        /\ mpc' = IF copied # {} THEN "fill" ELSE "exit0"
  /\ UNCHANGED <<script, start_id, end_id, concurrency, started, joined, mainck, q,
                 wpc, cur, ckmem, molfiles, rankfiles, finalOut, finalMkl, ckfile,
                 atStart, faults, fn>>

\* run_batch_manager.py:219-226; run_batch_manager_intel.py:226-237
MainFill ==
  /\ mpc = "fill"
  /\ q' = Filled(start_id, end_id, concurrency)
  /\ mpc' = "pool"
  /\ UNCHANGED <<script, start_id, end_id, concurrency, started, joined, mainck,
                 wpc, cur, ckmem, molfiles, scratch, rankfiles, finalOut, finalMkl,
                 ckfile, log, atStart, faults, fn>>

\* run_batch_manager.py:236-239: p.start() forks worker i with a copy of checkpoint
MainStart ==
  /\ mpc = "pool"
  /\ started < concurrency
  /\ wpc' = [wpc EXCEPT ![started] = "get"]
  /\ ckmem' = [ckmem EXCEPT ![started] = mainck]
  /\ started' = started + 1
  /\ UNCHANGED <<script, start_id, end_id, concurrency, mpc, joined, mainck, q, cur,
                 molfiles, scratch, rankfiles, finalOut, finalMkl, ckfile, log,
                 atStart, faults, fn>>

Dead == {"exited", "crashed"}

\* run_batch_manager.py:240-241: p.join() returns once process p has ended
MainJoin ==
  /\ mpc = "pool"
  /\ started = concurrency
  /\ joined < concurrency
  /\ wpc[joined] \in Dead
  /\ joined' = joined + 1
  /\ UNCHANGED <<script, start_id, end_id, concurrency, mpc, started, mainck, q, wpc,
                 cur, ckmem, molfiles, scratch, rankfiles, finalOut, finalMkl, ckfile,
                 log, atStart, faults, fn>>

\* run_batch_manager.py:244-246: final report, end of main
MainReport ==
  /\ mpc = "pool"
  /\ joined = concurrency
  /\ mpc' = "done"
  /\ UNCHANGED <<script, start_id, end_id, concurrency, started, joined, mainck, q,
                 wpc, cur, ckmem, molfiles, scratch, rankfiles, finalOut, finalMkl,
                 ckfile, log, atStart, faults, fn>>

\* ------------------------------------------------------------------ worker
\* A worker's statements between two accesses to what the workers share (the
\* queue, the checkpoint file) touch only the files of its own unit and slot;
\* they are one action each, with the statement that raised as an outcome:
\*   WorkerGet       q.get()
\*   RunTaskLaunch   run_task up to the start of the solver process
\*   RunTaskFinish   the solver process ends; run_task up to the open of line 54
\*   RunTaskDump     json.dump and close, line 55; run_task returns

mainvars == <<script, start_id, end_id, concurrency, mpc, started, joined, mainck,
              atStart, fn>>

Step(w, pc) == wpc' = [wpc EXCEPT ![w] = pc]

\* what the statements of run_task read and write
Locals(w) == [scratch |-> scratch, molfiles |-> molfiles, rankfiles |-> rankfiles,
              finalOut |-> finalOut, finalMkl |-> finalMkl, ck |-> ckmem[w],
              file |-> ckfile]

Assign(w, st) ==
  /\ scratch' = st.scratch
  /\ molfiles' = st.molfiles
  /\ rankfiles' = st.rankfiles
  /\ finalOut' = st.finalOut
  /\ finalMkl' = st.finalMkl
  /\ ckmem' = [ckmem EXCEPT ![w] = st.ck]
  /\ ckfile' = st.file

\* run_task without the check of line 123
InputPresent_Always(s, u) == TRUE

\* os.path.exists(work_inp), run_batch_manager.py:123;
\* os.path.exists(source_inp_path), run_batch_manager_intel.py:82
InputPresent(s, u) ==
  IF s = "intel" THEN <<u, "inp">> \in molfiles ELSE <<u, "inp">> \in scratch

\* the statements of run_task from the input check to the start of the solver
\* run_batch_manager.py:127-155; run_batch_manager_intel.py:86-114
LaunchSteps(s) ==
  IF s = "base" THEN <<"patch", "rankfile", "openout", "launch">>
  ELSE <<"stage", "patch", "openout", "launch">>

\* the checkpoint dict updated as soon as the solver has returned
FinishSteps_MarkFirst(s) ==
  IF s = "base" THEN <<"ckmark", "conv", "copy", "move", "rmrank", "ckopen">>
  ELSE <<"errscan", "conv", "copy", "move">>

\* the statements of run_task after the solver has returned
\* run_batch_manager.py:162-188 and 54; run_batch_manager_intel.py:122-176
FinishSteps(s) ==
  IF s = "base" THEN <<"conv", "copy", "move", "rmrank", "ckmark", "ckopen">>
  ELSE <<"errscan", "conv", "copy", "move">>

\* the statements inside try ... except Exception: return
\* run_batch_manager.py:153-158; run_batch_manager_intel.py:112-117
Guarded == {"openout", "launch"}

\* statements that do no I/O
NeverRaise == {"ckmark"}

\* A move loop that takes the input file only.
MovedFiles_InputOnly(s, files, u) == {f \in GlobJob(files, u) : f[2] = "inp"}

\* the files the move loop takes: run_batch_manager.py:177-178 skips *.txt;
\* run_batch_manager_intel.py:173-176 takes all
MovedFiles(s, files, u) ==
  {f \in GlobJob(files, u) : s = "intel" \/ ~EndsWithTxt(f[2])}

\* An open that keeps the old text of the file.
OpenForWrite_NoTruncate(file) == [exists |-> TRUE, data |-> file.data]

\* open(CHECKPOINT_FILE, 'w'), run_batch_manager.py:54: the file exists and is empty
OpenForWrite(file) == [exists |-> TRUE, data |-> <<>>]

\* One binding file for all slots.
RankfilePath_Shared(slot_idx) == <<"rankfile_slot", ".txt">>

\* f"rankfile_slot{slot_idx}.txt" in ORCA_FILES_DIR, run_batch_manager.py:88
RankfilePath(slot_idx) == <<"rankfile_slot", ToString(slot_idx), ".txt">>

\* the effect of one statement of run_task for unit u in slot w; env.pat: the
\* output holds a fatal-error substring, env.conv: orca_2mkl wrote the .mkl
ApplyStep(step, s, st, u, w, env) ==
  CASE step = "stage" ->                     \* intel 88
         [st EXCEPT !.scratch = @ \cup {<<u, "inp">>}]
    [] step = "patch" -> st                  \* base 127-134; the file stays
    [] step = "rankfile" ->                  \* base 137, 81-92
         [st EXCEPT !.rankfiles = @ \cup {RankfilePath(w)}]
    [] step = "openout" ->                   \* base 154: open(work_out, "w")
         [st EXCEPT !.scratch = @ \cup {<<u, "out">>}]
    [] step = "launch" -> st                 \* base 155: the solver process starts
    [] step = "errscan" ->                   \* intel 134-154
         IF <<u, "out">> \in st.scratch /\ env.pat
         THEN [st EXCEPT !.scratch = @ \cup {<<u, "err">>}]
         ELSE st
    [] step = "conv" ->                      \* base 163-171; intel 157-159
         IF <<u, "gbw">> \in st.scratch /\ env.conv
         THEN [st EXCEPT !.scratch = @ \cup {<<u, "mkl">>},
                         !.finalMkl = IF s = "base" THEN @ \cup {u} ELSE @]
         ELSE st
    [] step = "copy" ->                      \* base 173-174; intel 165-169
         [st EXCEPT !.finalOut = IF <<u, "out">> \in st.scratch
                                 THEN @ \cup {u} ELSE @,
                    !.finalMkl = IF s = "intel" /\ <<u, "mkl">> \in st.scratch
                                 THEN @ \cup {u} ELSE @]
    [] step = "move" ->                      \* base 177-179; intel 173-176
         [st EXCEPT !.scratch = @ \ MovedFiles(s, st.scratch, u),
                    !.molfiles = @ \cup MovedFiles(s, st.scratch, u)]
    [] step = "rmrank" ->                    \* base 181
         [st EXCEPT !.rankfiles = @ \ {RankfilePath(w)}]
    [] step = "ckmark" ->                    \* base 184-187
         [st EXCEPT !.ck = CkMark(@, u[1], u[2])]
    [] step = "ckopen" ->                    \* base 188 -> 54
         [st EXCEPT !.file = OpenForWrite(@)]

\* the statements steps[i..] in order, up to the one that raises (stop; 0: none)
RECURSIVE RunSteps(_, _, _, _, _, _, _, _)
RunSteps(steps, i, stop, s, st, u, w, env) ==
  IF i > Len(steps) \/ i = stop THEN st
  ELSE RunSteps(steps, i + 1, stop, s, ApplyStep(steps[i], s, st, u, w, env), u, w, env)

\* the statements that have run to their end when statement stop raised
Ran(steps, stop) ==
  {steps[i] : i \in {j \in 1..Len(steps) : stop = 0 \/ j < stop}}

\* where statement number stop may raise
StopPoints(steps) == {0} \cup {i \in 1..Len(steps) : steps[i] \notin NeverRaise}

\* run_batch_manager.py:230-232; run_batch_manager_intel.py:243-246
WorkerGet(w) ==
  /\ wpc[w] = "get"
  /\ q # <<>>
  /\ LET item == QueueItem(q)
     IN /\ q' = QueueRest(q)
        /\ IF item = None
           THEN Step(w, "exited") /\ UNCHANGED <<cur, log>>
           ELSE /\ Step(w, "task")
                /\ cur' = [cur EXCEPT ![w] = item]
                /\ log' = [log EXCEPT ![item].deq = @ + 1]
  /\ UNCHANGED <<mainvars, ckmem, molfiles, scratch, rankfiles, finalOut, finalMkl,
                 ckfile, faults>>

\* where run_task is after statement stop of LaunchSteps raised (0: none did):
\* an exception inside the try returns (158), any other leaves run_task and,
\* worker having no handler (229-233), ends the worker process
AfterLaunchPc(s, stop) ==
  IF stop = 0 THEN "solver"
  ELSE IF LaunchSteps(s)[stop] \in Guarded THEN "get"
  ELSE "crashed"

\* run_batch_manager.py:114-155; run_batch_manager_intel.py:64-114
RunTaskLaunch(w) ==
  /\ wpc[w] = "task"
  /\ LET u == cur[w]
     IN \/ /\ ~InputPresent(script, u)             \* SKIP: return, 123-125
           /\ Step(w, "get")
           /\ cur' = [cur EXCEPT ![w] = NoUnit]
           /\ UNCHANGED <<ckmem, molfiles, scratch, rankfiles, finalOut, finalMkl,
                          ckfile, log, faults>>
        \/ /\ InputPresent(script, u)
           /\ \E stop \in StopPoints(LaunchSteps(script)) :
                LET ran == Ran(LaunchSteps(script), stop)
                    pc == AfterLaunchPc(script, stop)
                IN /\ stop # 0 => faults < MaxFaults
                   /\ faults' = IF stop = 0 THEN faults ELSE faults + 1
                   /\ Assign(w, RunSteps(LaunchSteps(script), 1, stop, script,
                                         Locals(w), u, w, [pat |-> FALSE, conv |-> FALSE]))
                   /\ log' = [log EXCEPT
                                ![u].staged = IF "stage" \in ran THEN @ + 1 ELSE @,
                                ![u].runs = IF "launch" \in ran THEN @ + 1 ELSE @,
                                ![u].ret = IF stop # 0 /\ pc = "get" THEN "raised" ELSE @]
                   /\ Step(w, pc)
                   /\ cur' = [cur EXCEPT ![w] = IF pc = "get" THEN NoUnit ELSE u]
  /\ UNCHANGED <<mainvars, q>>

\* What the solver process leaves when it ends: ret its exit status ("timeout":
\* the 4h wrapper of line 145 ended it), files what it wrote besides the output,
\* pat whether the output holds one of the fatal-error substrings.
PlainOutcome == [ret |-> "ok", files |-> {"gbw"}, pat |-> FALSE]

OtherOutcomes(s) ==
  {[ret |-> "ok", files |-> {"gbw", "property.txt"}, pat |-> FALSE],
   [ret |-> "nonzero", files |-> {}, pat |-> TRUE],
   [ret |-> "nonzero", files |-> {"gbw"}, pat |-> TRUE]}
  \cup (IF s = "base"
        THEN {[ret |-> "timeout", files |-> {"gbw"}, pat |-> FALSE]}
        ELSE {})

\* the post-processing of a unit: conversion attempt, copy to the aggregation
\* directory, move to the molecule directory, removal of the binding file
PostProcessing(s) ==
  IF s = "base" THEN {"conv", "copy", "move", "rmrank"}
  ELSE {"errscan", "conv", "copy", "move"}

\* run_task returning before the checkpoint update when the exit status is not 0
AfterFinishPc_Gated(s, ret, stop) ==
  IF stop # 0 THEN "crashed"
  ELSE IF s = "base" /\ ret = "ok" THEN "dump"
  ELSE "get"

\* where run_task is once subprocess.run has returned with exit status ret
\* (check=False, run_batch_manager.py:155) and statement stop of FinishSteps
\* raised (0: none did): no statement after the solver has a handler
AfterFinishPc(s, ret, stop) ==
  IF stop # 0 THEN "crashed"
  ELSE IF s = "base" THEN "dump"
  ELSE "get"

\* how the orca_2mkl call of run_batch_manager.py:165, run_batch_manager_intel.py:159
\* went: not made (no .gbw, or an earlier statement raised), "ok", "failed" (it
\* ran and wrote no .mkl) or "raised" (subprocess.run raised: it could not start)
ConvResult(steps, stop, gbw, conv) ==
  LET at == CHOOSE i \in 1..Len(steps) : steps[i] = "conv"
  IN IF ~gbw \/ (stop # 0 /\ stop < at) THEN "none"
     ELSE IF stop = at THEN "raised"
     ELSE IF conv THEN "ok" ELSE "failed"

\* run_batch_manager.py:155-188 and 54; run_batch_manager_intel.py:114-178
RunTaskFinish(w) ==
  /\ wpc[w] = "solver"
  /\ LET u == cur[w]
         steps == FinishSteps(script)
     IN \E o \in {PlainOutcome} \cup OtherOutcomes(script), conv \in BOOLEAN,
           stop \in StopPoints(steps) :
          LET cost == (IF o = PlainOutcome THEN 0 ELSE 1) + (IF conv THEN 0 ELSE 1)
                      + (IF stop = 0 THEN 0 ELSE 1)
              st0 == [Locals(w) EXCEPT !.scratch = @ \cup ({u} \X o.files)]
              ran == Ran(steps, stop)
              pc == AfterFinishPc(script, o.ret, stop)
          IN /\ faults + cost <= MaxFaults
             /\ ~conv => "gbw" \in o.files           \* orca_2mkl ran and failed
             /\ (stop # 0 /\ steps[stop] = "conv") => "gbw" \in o.files
             /\ faults' = faults + cost
             /\ Assign(w, RunSteps(steps, 1, stop, script, st0, u, w,
                                   [pat |-> o.pat, conv |-> conv]))
             /\ log' = [log EXCEPT ![u].ret = o.ret,
                                   ![u].pat = o.pat,
                                   ![u].pp = PostProcessing(script) \subseteq ran,
                                   ![u].conv = ConvResult(steps, stop, "gbw" \in o.files,
                                                          conv)]
             /\ Step(w, pc)
             /\ cur' = [cur EXCEPT ![w] = IF pc = "get" THEN NoUnit ELSE u]
  /\ UNCHANGED <<mainvars, q>>

\* json.dump(checkpoint, f, indent=2) and the close of the with block,
\* run_batch_manager.py:55
DumpTo(file, checkpoint) ==
  [exists |-> TRUE, data |-> WriteAt0(file.data, JsonDump(checkpoint))]

\* run_batch_manager.py:55 and 189
RunTaskDump(w) ==
  /\ wpc[w] = "dump"
  /\ \/ /\ ckfile' = DumpTo(ckfile, ckmem[w])
        /\ log' = [log EXCEPT ![cur[w]].saved = TRUE]
        /\ Step(w, "get")
        /\ cur' = [cur EXCEPT ![w] = NoUnit]
        /\ UNCHANGED faults
     \/ /\ faults < MaxFaults                     \* the write raises
        /\ faults' = faults + 1
        /\ Step(w, "crashed")
        /\ UNCHANGED <<ckfile, log, cur>>
  /\ UNCHANGED <<mainvars, q, ckmem, molfiles, scratch, rankfiles, finalOut,
                 finalMkl>>

Worker(w) ==
  \/ WorkerGet(w)
  \/ RunTaskLaunch(w)
  \/ RunTaskFinish(w)
  \/ RunTaskDump(w)

Main == MainStage \/ MainFill \/ MainStart \/ MainJoin \/ MainReport

Next == Main \/ \E w \in Slots : Worker(w)

Spec == Init /\ [][Next]_vars

\* Every process that can take a step eventually takes one: main and the workers
\* are OS processes, and every call they block on returns.
FairSpec == Spec /\ WF_vars(Main) /\ \A w \in Slots : WF_vars(Worker(w))

\* ------------------------------------------------------------------ claims
Workers == 0..(concurrency - 1)

AnyCrashed == \E w \in Slots : wpc[w] = "crashed"

PoolRuns == mpc \in {"pool", "done"}

\* the unit is with no worker: its run_task has not begun or has returned
Returned(u) == \A w \in Slots : cur[w] # u

\* C1: each unit main put on the queue is handed out by q.get() exactly once: it is
\* in the queue or has been dequeued, never both and never twice; no two workers
\* hold the same unit; the solver is started at most once for it; and once every
\* worker has ended, one of them through a sentinel, every unit has been dequeued.
C1_DeliveredOnce ==
  PoolRuns =>
    /\ \A u \in RangeUnits : InQueue(u) + log[u].deq = 1
    /\ \A u \in Units \ RangeUnits : InQueue(u) + log[u].deq = 0
    /\ \A u \in Units : log[u].runs <= 1
    /\ \A w1, w2 \in Slots : (w1 # w2 /\ cur[w1] # NoUnit) => cur[w1] # cur[w2]
    /\ ((\A w \in Workers : wpc[w] \in Dead) /\ (\E w \in Workers : wpc[w] = "exited"))
         => \A u \in RangeUnits : log[u].deq = 1

C1_Witness ==
  \E w1, w2 \in Slots :
    /\ w1 # w2
    /\ wpc[w1] = "solver" /\ wpc[w2] = "solver"
    /\ cur[w1] \in RangeUnits /\ cur[w2] \in RangeUnits

\* C2: once the queue is filled, and unless a run_task call ends in an exception,
\* every worker dequeues a sentinel and exits, and main's join loop returns.
C2_WorkersTerminate ==
  (mpc = "pool") ~> (AnyCrashed \/ (mpc = "done" /\ \A w \in Workers : wpc[w] = "exited"))

C2_Witness ==
  /\ mpc = "done"
  /\ concurrency > 1
  /\ \A w \in Workers : wpc[w] = "exited"
  /\ \A u \in RangeUnits : log[u].deq = 1

\* C3: when all workers have exited, the checkpoint file records every unit whose
\* run_task saved the checkpoint (no completed entry is ever lost).
C3_NoEntryLost ==
  (mpc = "done" /\ \A w \in Workers : wpc[w] = "exited")
    => \A u \in Units : log[u].saved => Records(ckfile, u)

\* C4: at every instant the checkpoint file, if it exists, is a complete,
\* parseable mapping.
C4_AlwaysParseable == ckfile.exists => JsonLoad(ckfile.data).ok

\* C5: a unit of the range for which is_completed held when the batch began is not
\* staged again and the solver is never started for it.
C5_SkipsFinished == \A u \in atStart : log[u].staged = 0 /\ log[u].runs = 0

\* C6: a checkpoint entry that was not there when the batch began is in a worker's
\* dict or in the checkpoint file only if every post-processing step of that unit
\* has finished; a unit whose worker stopped earlier is not recorded.
C6_MarkedAfterPostProcessing ==
  \A u \in Units :
    (Records(ckfile, u) \/ \E w \in Slots : CkFlag(ckmem[w], u[1], u[2]))
      => (CkFlag(mainck, u[1], u[2]) \/ log[u].pp)

C6_Witness ==
  \E w \in Slots, u \in Units :
    /\ wpc[w] = "crashed" /\ cur[w] \in Units /\ ~log[cur[w]].pp
    /\ ~Records(ckfile, cur[w])
    /\ u # cur[w] /\ Records(ckfile, u) /\ log[u].pp /\ ~CkFlag(mainck, u[1], u[2])

\* C7: when the input of the unit is absent, run_task returns to the worker loop
\* and changes no file, no binding file, no checkpoint dict and not the
\* checkpoint file, and the solver is not started.
C7_SkipMissingInput ==
  [][\A w \in Slots :
       (/\ wpc[w] = "task"
        /\ <<cur[w], "inp">> \notin (IF script = "intel" THEN molfiles ELSE scratch)
        /\ wpc'[w] # wpc[w])
         => /\ wpc'[w] = "get"
            /\ UNCHANGED <<scratch, molfiles, rankfiles, finalOut, finalMkl, ckmem,
                           ckfile>>
            /\ log'[cur[w]].runs = log[cur[w]].runs
            /\ ~is_completed(cur[w][1], cur[w][2], ckmem'[w])]_vars

C7_Witness ==
  \E u \in RangeUnits :
    /\ log[u].deq = 1 /\ Returned(u)
    /\ ~InputPresent(script, u)
    /\ log[u].runs = 0 /\ log[u].ret = "none"
    /\ <<u, "out">> \notin scratch

\* C8: in run_batch_manager.py an exception raised anywhere inside a unit's
\* processing never ends the worker process.
C8_WorkerSurvives == script = "base" => \A w \in Slots : wpc[w] # "crashed"

C10_RankfileTransient ==
  \A w \in Slots : wpc[w] \in {"get", "exited"} => RankfilePath(w) \notin rankfiles

\* ===================== functions of the scripts, each called on its own ===
\* The variables of the batch keep one value while a function is called on its
\* own; fn holds the call.
poolvars == <<script, start_id, end_id, concurrency, mpc, started, joined, mainck,
              q, wpc, cur, ckmem, molfiles, scratch, rankfiles, finalOut, finalMkl,
              ckfile, log, atStart, faults>>

IdleButFiles ==
  /\ script = "base"
  /\ start_id = 1
  /\ end_id = 1
  /\ concurrency = 1
  /\ mpc = "idle"
  /\ started = 0
  /\ joined = 0
  /\ mainck = <<>>
  /\ q = <<>>
  /\ wpc = [w \in Slots |-> "unborn"]
  /\ cur = [w \in Slots |-> NoUnit]
  /\ ckmem = [w \in Slots |-> <<>>]
  /\ scratch = {}
  /\ rankfiles = {}
  /\ finalOut = {}
  /\ finalMkl = {}
  /\ ckfile = [exists |-> FALSE, data |-> <<>>]
  /\ log = [u \in Units |-> NoLog]
  /\ atStart = {}
  /\ faults = 0

PoolIdle == IdleButFiles /\ molfiles = {}

\* ---------------------------------------------------------- core binding
\* multiprocessing.cpu_count() and the operator's CONCURRENCY, lines 204, 213
MaxCores == 33
MaxSlotsArg == 5

\* "16 cores per socket on your Intel nodes", line 85
CoresPerSocket == 16

\* f"{n}": the text of an integer, pieces "-" and the digits
IntText(n) == IF n < 0 THEN <<"-", ToString(-n)>> ELSE <<ToString(n)>>

\* f"{start}-{end}", line 78
FormatRange(start, end) == IntText(start) \o <<"-">> \o IntText(end)

\* cpu_range.split('-')[0]: the text before the first '-'
RECURSIVE SplitFirst(_)
SplitFirst(text) ==
  IF text = <<>> \/ Head(text) = "-" THEN <<>>
  ELSE <<Head(text)>> \o SplitFirst(Tail(text))

\* int(text) of the digits of a core index
ParseInt(text) == CHOOSE n \in 0..MaxCores : text = <<ToString(n)>>

\* total_cores // num_slots, line 73
CoresPerSlot_Ceil(total_cores, num_slots) == (total_cores + num_slots - 1) \div num_slots

CoresPerSlot(total_cores, num_slots) == total_cores \div num_slots

\* line 77 without the branch for the last slot
RangeEnd_NoRemainder(i, total_cores, num_slots) ==
  (i + 1) * CoresPerSlot(total_cores, num_slots) - 1

\* lines 76-77 for slot i
RangeStart(i, total_cores, num_slots) == i * CoresPerSlot(total_cores, num_slots)

RangeEnd(i, total_cores, num_slots) ==
  IF i = num_slots - 1 THEN total_cores - 1
  ELSE (i + 1) * CoresPerSlot(total_cores, num_slots) - 1

\* run_batch_manager.py:68-79; run_batch_manager_intel.py:44-58
get_cpu_ranges(total_cores, num_slots) ==
  [ranges |-> [k \in 1..num_slots |->
                 FormatRange(RangeStart(k - 1, total_cores, num_slots),
                             RangeEnd(k - 1, total_cores, num_slots))],
   cores_per_slot |-> CoresPerSlot(total_cores, num_slots)]

\* run_batch_manager.py:81-92: the lines written to rankfile_slot<slot_idx>.txt
create_rankfile(slot_idx, cpu_range, nprocs) ==
  LET start == ParseInt(SplitFirst(cpu_range))
      socket_id == start \div CoresPerSocket
      local_start == start % CoresPerSocket
  IN [k \in 1..nprocs |->
        [rank |-> k - 1, socket |-> socket_id, core |-> local_start + (k - 1)]]

BindInit ==
  /\ PoolIdle
  /\ \E t \in 1..MaxCores, n \in 1..MaxSlotsArg :
       fn = [op |-> "bind", pc |-> "start", total_cores |-> t, num_slots |-> n,
             ranges |-> <<>>, nprocs |-> 0, slot |-> 0, rankfile |-> <<>>]

\* main, line 214: cpu_ranges, nprocs = get_cpu_ranges(total_cores, concurrency)
GetCpuRanges ==
  /\ fn.pc = "start"
  /\ LET r == get_cpu_ranges(fn.total_cores, fn.num_slots)
     IN fn' = [fn EXCEPT !.pc = "ranged", !.ranges = r.ranges,
                         !.nprocs = r.cores_per_slot]
  /\ UNCHANGED poolvars

\* main, line 237, and run_task, line 137: slot i binds with cpu_ranges[i], nprocs
CreateRankfile ==
  /\ fn.pc = "ranged"
  /\ \E i \in 0..(fn.num_slots - 1) :
       fn' = [fn EXCEPT !.pc = "bound", !.slot = i,
                        !.rankfile = create_rankfile(i, fn.ranges[i + 1], fn.nprocs)]
  /\ UNCHANGED poolvars

BindNext == GetCpuRanges \/ CreateRankfile

BindSpec == BindInit /\ [][BindNext]_vars

\* the cores a range text "lo-hi" denotes
NumOf(digits) == CHOOSE n \in 0..MaxCores : ToString(n) = digits
RangeLo(text) == NumOf(text[1])
RangeHi(text) == IF Len(text) = 3 THEN NumOf(text[3]) ELSE 0 - NumOf(text[4])
CoresOf(text) == RangeLo(text)..RangeHi(text)

Ranged == fn.op = "bind" /\ fn.pc \in {"ranged", "bound"}

\* C11: for total_cores >= num_slots >= 1, get_cpu_ranges returns num_slots
\* ranges, each with start <= end, pairwise disjoint, whose union is
\* 0 .. total_cores-1.
C11_PartitionCovers ==
  (Ranged /\ fn.total_cores >= fn.num_slots) =>
    /\ Len(fn.ranges) = fn.num_slots
    /\ \A k \in 1..Len(fn.ranges) : RangeLo(fn.ranges[k]) <= RangeHi(fn.ranges[k])
    /\ \A j, k \in 1..Len(fn.ranges) :
         j # k => CoresOf(fn.ranges[j]) \cap CoresOf(fn.ranges[k]) = {}
    /\ UNION {CoresOf(fn.ranges[k]) : k \in 1..Len(fn.ranges)} = 0..(fn.total_cores - 1)

C11_Witness ==
  /\ Ranged
  /\ fn.num_slots >= 3
  /\ fn.total_cores > fn.num_slots
  /\ fn.total_cores % fn.num_slots # 0
  /\ Len(fn.ranges) = fn.num_slots

\* C12: cores_per_slot is floor(total_cores / num_slots); range i is
\* [i*cores_per_slot, (i+1)*cores_per_slot - 1] for i < num_slots-1 and the last
\* range is [(num_slots-1)*cores_per_slot, total_cores-1]; (32, 4) gives
\* 0-7, 8-15, 16-23, 24-31 with cores_per_slot 8.
C12_RangeFormula ==
  Ranged =>
    LET c == fn.nprocs
        n == fn.num_slots
    IN /\ c * n <= fn.total_cores /\ fn.total_cores < (c + 1) * n
       /\ Len(fn.ranges) = n
       /\ \A i \in 0..(n - 1) :
            /\ RangeLo(fn.ranges[i + 1]) = i * c
            /\ RangeHi(fn.ranges[i + 1]) =
                 IF i < n - 1 THEN (i + 1) * c - 1 ELSE fn.total_cores - 1
       /\ (fn.total_cores = 32 /\ n = 4) =>
            /\ c = 8
            /\ fn.ranges = << <<"0", "-", "7">>, <<"8", "-", "15">>,
                              <<"16", "-", "23">>, <<"24", "-", "31">> >>

C12_Witness == Ranged /\ fn.total_cores = 32 /\ fn.num_slots = 4 /\ fn.nprocs = 8

\* C13: when num_slots > total_cores the call ends in an error: it returns no
\* range with end < start and no process count 0.
C13_OversubscriptionRejected ==
  (Ranged /\ fn.num_slots > fn.total_cores) =>
    /\ fn.pc = "rejected"
    /\ fn.nprocs >= 1
    /\ \A k \in 1..Len(fn.ranges) : RangeLo(fn.ranges[k]) <= RangeHi(fn.ranges[k])

\* C14: for every slot of a partition with total_cores >= num_slots and every
\* rank r < nprocs the rankfile has exactly one line, and its (socket, core) is
\* absolute core start+r: socket (start+r) div 16, local core (start+r) mod 16,
\* below 16 and inside the slot's range.
C14_RankBindingCorrect ==
  (fn.op = "bind" /\ fn.pc = "bound" /\ fn.total_cores >= fn.num_slots) =>
    LET start == RangeLo(fn.ranges[fn.slot + 1])
    IN \A r \in 0..(fn.nprocs - 1) :
         /\ Cardinality({k \in 1..Len(fn.rankfile) : fn.rankfile[k].rank = r}) = 1
         /\ \A k \in 1..Len(fn.rankfile) :
              fn.rankfile[k].rank = r =>
                /\ fn.rankfile[k].socket = (start + r) \div CoresPerSocket
                /\ fn.rankfile[k].core = (start + r) % CoresPerSocket
                /\ fn.rankfile[k].core < CoresPerSocket
                /\ start + r <= RangeHi(fn.ranges[fn.slot + 1])

\* ----------------------------------------------------------- is_completed
\* the ids and the checkpoint dicts is_completed is called with
CompIds == 1..(MaxId + 1)
CompKeys == {ToString(i) : i \in CompIds} \cup {"01"}
CompMethods == {<<>>} \cup {<< <<m, b>> >> : m \in MethodSet, b \in BOOLEAN}
CompDicts ==
  {<<>>}
    \cup {<< <<k, ms>> >> : k \in CompKeys, ms \in CompMethods}
    \cup {<< <<"2", << <<"mp2", TRUE>> >> >>, <<"1", ms>> >> : ms \in CompMethods}

CompInit ==
  /\ IdleButFiles
  /\ \E mol_id \in CompIds, method \in MethodSet, checkpoint \in CompDicts :
       /\ molfiles \in SUBSET {<<<<mol_id, method>>, "out">>, <<<<mol_id, method>>, "inp">>,
                               <<<<mol_id, "other">>, "out">>}
       /\ fn = [op |-> "is_completed", pc |-> "start", mol_id |-> mol_id,
                method |-> method, checkpoint |-> checkpoint, result |-> FALSE]

\* a call of is_completed, as in print_progress, line 193
IsCompleted ==
  /\ fn.pc = "start"
  /\ fn' = [fn EXCEPT !.pc = "returned",
                      !.result = is_completed(fn.mol_id, fn.method, fn.checkpoint)]
  /\ UNCHANGED poolvars

CompSpec == CompInit /\ [][IsCompleted]_vars

\* the checkpoint maps str(mol_id) to a mapping with method true
MapsToTrue(checkpoint, mol_id, method) ==
  \E i \in 1..Len(checkpoint) :
    /\ checkpoint[i][1] = ToString(mol_id)
    /\ \E j \in 1..Len(checkpoint[i][2]) : checkpoint[i][2][j] = <<method, TRUE>>

\* C15: is_completed returns true exactly when the unit's output file is in the
\* molecule directory or the checkpoint maps str(mol_id) to a mapping with the
\* method true; the call changes neither the checkpoint nor any file.
C15_DiskOrCheckpoint ==
  [][(fn.op = "is_completed" /\ fn.pc = "start" /\ fn'.pc = "returned") =>
       /\ fn'.result = (\/ <<<<fn.mol_id, fn.method>>, "out">> \in molfiles
                        \/ MapsToTrue(fn.checkpoint, fn.mol_id, fn.method))
       /\ fn'.checkpoint = fn.checkpoint
       /\ molfiles' = molfiles
       /\ ckfile' = ckfile]_vars

C15_Witness ==
  /\ fn.op = "is_completed" /\ fn.pc = "returned" /\ fn.result
  /\ <<<<fn.mol_id, fn.method>>, "out">> \in molfiles
  /\ \E i \in 1..Len(fn.checkpoint) :
       /\ fn.checkpoint[i][1] = ToString(fn.mol_id)
       /\ fn.checkpoint[i][2] = << <<fn.method, FALSE>> >>

\* ------------------------------------- main of run_batch_manager.py, whole
\* MainSpec is main from its first statement, lines 197-211: the command line,
\* ensure_dirs, load_checkpoint, print_progress and the call of
\* copy_inputs_sequentially.  Spec above is what lines 209-246 do once that call
\* has been made with the function's own two parameters.

\* def copy_inputs_sequentially(start_id, end_id), line 94
StageParams == <<"start_id", "end_id">>

\* copy_inputs_sequentially(start_id, end_id, checkpoint), line 209
StageArgs == <<"start_id", "end_id", "checkpoint">>

\* a call binds its positional arguments to the parameters, or raises TypeError
Binds(params, args) == Len(args) = Len(params)

\* concurrency when sys.argv has no fourth element, line 204
DefaultConcurrency == 4

MainInit ==
  /\ script = "base"
  /\ start_id = 0
  /\ end_id = 0
  /\ concurrency = 0
  /\ mpc = "argv"
  /\ started = 0
  /\ joined = 0
  /\ mainck = <<>>
  /\ q = <<>>
  /\ wpc = [w \in Slots |-> "unborn"]
  /\ cur = [w \in Slots |-> NoUnit]
  /\ ckmem = [w \in Slots |-> <<>>]
  /\ scratch = {}
  /\ rankfiles = {}
  /\ log = [u \in Units |-> NoLog]
  /\ atStart = {}
  /\ faults = 0
  /\ \E a1 \in Ids, a3 \in 1..MaxConcurrency, argc \in 0..3 :
     \E a2 \in a1..MaxId, absent \in {{}, {<<a1, "ccsd">>}}, prev \in {{}, {<<a1, "mp2">>}} :
       /\ fn = [op |-> "main",
                argv |-> SubSeq(<<ToString(a1), ToString(a2), ToString(a3)>>, 1, argc),
                phases |-> <<>>, exit |-> "none", usage |-> FALSE]
       /\ molfiles = ((Units \ absent) \X {"inp"}) \cup (prev \X {"inp", "out", "gbw"})
       /\ finalOut = prev
       /\ finalMkl = prev
       /\ ckfile \in {[exists |-> FALSE, data |-> <<>>],
                      [exists |-> TRUE, data |-> JsonDump(MarkAll(<<>>, prev))],
                      [exists |-> TRUE, data |-> <<>>],
                      [exists |-> TRUE,
                       data |-> JsonDump(MarkAll(<<>>, prev)) \o <<"}", "}">>]}

\* main ends: sys.exit(status), or an exception no one catches (status 1)
Exit(status, phase) ==
  /\ mpc' = "ended"
  /\ fn' = [fn EXCEPT !.exit = status, !.phases = Append(@, phase),
                      !.usage = (phase = "usage")]

Did(phase, next) ==
  /\ mpc' = next
  /\ fn' = [fn EXCEPT !.phases = Append(@, phase)]

\* lines 198-204
MainArgv ==
  /\ mpc = "argv"
  /\ IF Len(fn.argv) + 1 < 3
     THEN Exit("1", "usage") /\ UNCHANGED <<start_id, end_id, concurrency>>
     ELSE /\ Did("argv", "dirs")
          /\ start_id' = NumOf(fn.argv[1])
          /\ end_id' = NumOf(fn.argv[2])
          /\ concurrency' = IF Len(fn.argv) + 1 >= 4 THEN NumOf(fn.argv[3])
                            ELSE DefaultConcurrency
  /\ UNCHANGED <<script, started, joined, mainck, q, wpc, cur, ckmem, molfiles,
                 scratch, rankfiles, finalOut, finalMkl, ckfile, log, atStart, faults>>

\* line 206: the three directories exist afterwards
MainEnsureDirs ==
  /\ mpc = "dirs"
  /\ Did("dirs", "load")
  /\ UNCHANGED <<script, start_id, end_id, concurrency, started, joined, mainck, q,
                 wpc, cur, ckmem, molfiles, scratch, rankfiles, finalOut, finalMkl,
                 ckfile, log, atStart, faults>>

\* line 207
MainLoadCheckpoint ==
  /\ mpc = "load"
  /\ IF ckfile.exists /\ ~JsonLoad(ckfile.data).ok
     THEN Exit("1", "JSONDecodeError") /\ UNCHANGED mainck
     ELSE Did("load", "progress") /\ mainck' = load_checkpoint(ckfile)
  /\ UNCHANGED <<script, start_id, end_id, concurrency, started, joined, q, wpc, cur,
                 ckmem, molfiles, scratch, rankfiles, finalOut, finalMkl, ckfile,
                 log, atStart, faults>>

\* line 208 and 191-195: done / total with total = (end_id - start_id + 1) * 3
MainPrintProgress ==
  /\ mpc = "progress"
  /\ IF (end_id - start_id + 1) * 3 = 0
     THEN Exit("1", "ZeroDivisionError") /\ UNCHANGED atStart
     ELSE /\ Did("progress", "stage")
          /\ atStart' = {u \in RangeUnits : is_completed(u[1], u[2], mainck)}
  /\ UNCHANGED <<script, start_id, end_id, concurrency, started, joined, mainck, q,
                 wpc, cur, ckmem, molfiles, scratch, rankfiles, finalOut, finalMkl,
                 ckfile, log, faults>>

\* lines 209-211: the call, and the branch on what it returns
MainCallStage ==
  /\ mpc = "stage"
  /\ IF ~Binds(StageParams, StageArgs)
     THEN Exit("1", "TypeError") /\ UNCHANGED scratch
     ELSE LET copied == {u \in RangeUnits : <<u, "inp">> \in molfiles}
          IN /\ scratch' = scratch \cup (copied \X {"inp"})
             /\ IF copied # {} THEN Did("stage", "fill") ELSE Exit("0", "stage")
  /\ UNCHANGED <<script, start_id, end_id, concurrency, started, joined, mainck, q,
                 wpc, cur, ckmem, molfiles, rankfiles, finalOut, finalMkl, ckfile,
                 log, atStart, faults>>

MainNext ==
  MainArgv \/ MainEnsureDirs \/ MainLoadCheckpoint \/ MainPrintProgress \/ MainCallStage

MainSpec == MainInit /\ [][MainNext]_vars

MainEnded == fn.op = "main" /\ mpc = "ended"

\* the range holds at least one input file
SomeInput == \E u \in RangeUnits : <<u, "inp">> \in molfiles

\* the checkpoint file is absent or json.load accepts it (C22 has the other case)
Loadable == ~ckfile.exists \/ JsonLoad(ckfile.data).ok

\* C16: for the range [start, end] and concurrency C, main has enqueued
\* (end-start+1) * |METHODS| units in id-major order, each once, then C
\* sentinels and nothing else (no worker takes from q before main has ended or
\* started one, so q is what main has enqueued).
C16_QueueConstruction ==
  (MainEnded /\ Len(fn.argv) >= 2 /\ SomeInput /\ Loadable) =>
    LET n == (end_id - start_id + 1) * Len(METHODS)
    IN /\ Len(q) = n + concurrency
       /\ \A k \in 1..n :
            q[k] = <<start_id + ((k - 1) \div Len(METHODS)),
                     METHODS[((k - 1) % Len(METHODS)) + 1]>>
       /\ \A k \in (n + 1)..Len(q) : q[k] = None

\* C17: run with START and END (and CONCURRENCY or not) over a range with an
\* input file, main goes through directory setup, checkpoint load, progress
\* report, staging, partition, queue fill, start, join and final report in this
\* order and ends with status 0; with fewer than two arguments it ends with
\* status 1 and the usage message, and only then.
C17_NormalCompletion ==
  MainEnded =>
    IF Len(fn.argv) < 2
    THEN fn.exit = "1" /\ fn.usage
    ELSE (SomeInput /\ Loadable) =>
           /\ fn.exit = "0"
           /\ ~fn.usage
           /\ fn.phases = <<"argv", "dirs", "load", "progress", "stage", "partition",
                            "fill", "start", "join", "report">>

\* ------------------------------------------------- result of one unit (Spec)
\* C18: when run_task of run_batch_manager.py returns for a unit whose staged
\* input existed and whose solver returned, the .out is in the aggregation
\* directory, the unit's .inp and .out are in the molecule directory, none of
\* .inp, .out, .gbw is left in the scratch directory, the slot's binding file is
\* gone, and the checkpoint file maps str(id) to {method: true}.
C18_EndToEnd ==
  [][\A w \in Slots :
       (wpc[w] = "dump" /\ wpc'[w] = "get") =>
         LET u == cur[w]
         IN /\ u \in finalOut'
            /\ {<<u, "inp">>, <<u, "out">>} \subseteq molfiles'
            /\ {<<u, "inp">>, <<u, "out">>, <<u, "gbw">>} \cap scratch' = {}
            /\ RankfilePath(w) \notin rankfiles'
            /\ Records(ckfile', u)]_vars

\* --------------------------------------------- the %pal patch of run_task
\* A staged input is the list readlines() returns; a line is its words.
MaxLines == 3
MaxNprocs == 2

\* str.lower() on a word
Lower(word) ==
  CASE word \in {"%PAL", "%Pal"} -> "%pal"
    [] word = "NPROCS" -> "nprocs"
    [] word = "END" -> "end"
    [] word = "MP2" -> "mp2"
    [] OTHER -> word

\* the lines staged inputs are made of: directives in several cases, the opener
\* of a multi-line block, a comment that mentions %pal, and other lines
PatchLines ==
  {<<"%pal", "nprocs", "8", "end">>, <<"%PAL", "NPROCS", "8", "END">>, <<"%Pal">>,
   <<"nprocs", "8">>, <<"end">>, <<"!", "MP2", "#", "%pal">>, <<"!", "MP2">>}

\* "%pal" in line, without lower()
ContainsPal_CaseSensitive(line) == \E i \in 1..Len(line) : line[i] = "%pal"

\* "%pal" in line.lower(), line 133
ContainsPal(line) == \E i \in 1..Len(line) : Lower(line[i]) = "%pal"

\* f"%pal nprocs {nprocs} end\n", line 131
PalLine(nprocs) == <<"%pal", "nprocs", ToString(nprocs), "end">>

\* lines 132-134: the lines written after the first
RECURSIVE KeptLines(_)
KeptLines(lines) ==
  IF lines = <<>> THEN <<>>
  ELSE (IF ContainsPal(Head(lines)) THEN <<>> ELSE <<Head(lines)>>)
         \o KeptLines(Tail(lines))

\* run_batch_manager.py:128-134; run_batch_manager_intel.py:92-99
PatchPal(lines, nprocs) == <<PalLine(nprocs)>> \o KeptLines(lines)

RECURSIVE SeqsUpTo(_, _)
SeqsUpTo(S, n) ==
  IF n = 0 THEN {<<>>}
  ELSE SeqsUpTo(S, n - 1) \cup {Append(t, x) : t \in SeqsUpTo(S, n - 1), x \in S}

PatchInit ==
  /\ PoolIdle
  /\ \E lines \in SeqsUpTo(PatchLines, MaxLines), n \in 1..MaxNprocs :
       fn = [op |-> "patch", pc |-> "staged", orig |-> lines, nprocs |-> n,
             file |-> lines, once |-> <<>>]

\* run_task patches the staged input for its slot
PatchInput ==
  /\ fn.pc = "staged"
  /\ fn' = [fn EXCEPT !.pc = "patched", !.file = PatchPal(fn.file, fn.nprocs),
                      !.once = PatchPal(fn.file, fn.nprocs)]
  /\ UNCHANGED poolvars

\* a later run_task patches the same staged file again, for a slot with n cores
PatchAgain ==
  /\ fn.pc = "patched"
  /\ \E n \in 1..MaxNprocs :
       fn' = [fn EXCEPT !.pc = "repatched", !.nprocs = n,
                        !.file = PatchPal(fn.file, n)]
  /\ UNCHANGED poolvars

PatchNext == PatchInput \/ PatchAgain

PatchSpec == PatchInit /\ [][PatchNext]_vars

\* the line holds a %pal directive in some letter case
HasDirective(line) == \E i \in 1..Len(line) : line[i] \in {"%pal", "%PAL", "%Pal"}

RECURSIVE Others(_)
Others(lines) ==
  IF lines = <<>> THEN <<>>
  ELSE (IF HasDirective(Head(lines)) THEN <<>> ELSE <<Head(lines)>>)
         \o Others(Tail(lines))

\* C19: after the patch for process count n the first line is
\* "%pal nprocs n end", no other line holds a %pal directive in any letter case,
\* the other original lines follow unchanged and in order; a second patch leaves
\* exactly one directive.
C19_PalPatch ==
  (fn.op = "patch" /\ fn.pc # "staged") =>
    /\ fn.file[1] = <<"%pal", "nprocs", ToString(fn.nprocs), "end">>
    /\ \A k \in 2..Len(fn.file) : ~HasDirective(fn.file[k])
    /\ Tail(fn.file) = Others(fn.orig)
    /\ Cardinality({k \in 1..Len(fn.file) : HasDirective(fn.file[k])}) = 1
    /\ fn.pc = "repatched" => Tail(fn.file) = Tail(fn.once)

C19_Witness ==
  /\ fn.op = "patch" /\ fn.pc = "repatched"
  /\ Cardinality({k \in 1..Len(fn.orig) : HasDirective(fn.orig[k])}) >= 2
  /\ \E k \in 1..Len(fn.orig) : fn.orig[k] = <<"%PAL", "NPROCS", "8", "END">>
  /\ \E k \in 1..Len(fn.orig) : ~HasDirective(fn.orig[k])

\* ------------------- the error scan of run_batch_manager_intel.py run_task
\* lines 125-129
error_patterns ==
  <<"aborting the run", "Error termination", "The MDCI module", "mdci_state.cpp",
    "orca_mdci_mpi", "not enough slots", "illegal state", "Segmentation fault",
    "Signal: Aborted">>

\* the patterns as str.lower() and str.upper() give them
PatLower ==
  <<"aborting the run", "error termination", "the mdci module", "mdci_state.cpp",
    "orca_mdci_mpi", "not enough slots", "illegal state", "segmentation fault",
    "signal: aborted">>

PatUpper ==
  <<"ABORTING THE RUN", "ERROR TERMINATION", "THE MDCI MODULE", "MDCI_STATE.CPP",
    "ORCA_MDCI_MPI", "NOT ENOUGH SLOTS", "ILLEGAL STATE", "SEGMENTATION FAULT",
    "SIGNAL: ABORTED">>

\* lines[-25:], line 144
TailLines == 25

MaxOutLines == 27

\* str.lower() on a line of the output
LowerText(text) ==
  IF \E i \in 1..Len(error_patterns) : text \in {error_patterns[i], PatUpper[i]}
  THEN PatLower[CHOOSE i \in 1..Len(error_patterns) :
                  text \in {error_patterns[i], PatUpper[i]}]
  ELSE text

\* pat.lower() in content.lower(), line 138
InContent(pat, lines) ==
  \E k \in 1..Len(lines) : LowerText(lines[k]) = LowerText(pat)

\* the pattern of the earliest line of the output that holds one; 0: none
FirstMatch_InFileOrder(lines) ==
  LET hits == {k \in 1..Len(lines) :
                 \E i \in 1..Len(error_patterns) : InContent(error_patterns[i], <<lines[k]>>)}
  IN IF hits = {} THEN 0
     ELSE LET k == CHOOSE x \in hits : \A y \in hits : x <= y
          IN CHOOSE i \in 1..Len(error_patterns) : InContent(error_patterns[i], <<lines[k]>>)

\* lines 137-145: the index of the pattern the loop breaks at; 0: it ends without
FirstMatch(lines) ==
  LET hits == {i \in 1..Len(error_patterns) : InContent(error_patterns[i], lines)}
  IN IF hits = {} THEN 0 ELSE CHOOSE i \in hits : \A j \in hits : i <= j

\* lines[-25:]
LastLines(lines) ==
  SubSeq(lines, IF Len(lines) > TailLines THEN Len(lines) - TailLines + 1 ELSE 1,
         Len(lines))

\* lines 131-154: what is written to <job>.err; exists FALSE: no file is made
ErrFile(lines) ==
  LET i == FirstMatch(lines)
  IN IF i = 0 THEN [exists |-> FALSE, matched |-> "", tail |-> <<>>]
     ELSE [exists |-> TRUE, matched |-> error_patterns[i], tail |-> LastLines(lines)]

\* a pattern in the letter case the solver printed it
Cased(i, case) ==
  CASE case = "upper" -> PatUpper[i]
    [] case = "lower" -> PatLower[i]
    [] OTHER -> error_patterns[i]

\* an output of n lines, pattern i1 on its first line and i2 on its last (0: none)
OutputOf(n, i1, i2, case) ==
  [k \in 1..n |->
     IF k = 1 /\ i1 # 0 THEN Cased(i1, case)
     ELSE IF k = n /\ i2 # 0 THEN Cased(i2, case)
     ELSE ToString(k)]

ScanInit ==
  /\ PoolIdle
  /\ \E n \in 0..MaxOutLines, i1 \in 0..Len(error_patterns),
        i2 \in 0..Len(error_patterns), case \in {"asis", "upper", "lower"} :
       fn = [op |-> "scan", pc |-> "solved", out |-> OutputOf(n, i1, i2, case),
             err |-> [exists |-> FALSE, matched |-> "", tail |-> <<>>], done |-> <<>>]

\* run_batch_manager_intel.py:125-154
ScanOutput ==
  /\ fn.pc = "solved"
  /\ fn' = [fn EXCEPT !.pc = "scanned", !.err = ErrFile(fn.out)]
  /\ UNCHANGED poolvars

\* run_batch_manager_intel.py:156-178: conversion, copies, move
ScanFinish ==
  /\ fn.pc = "scanned"
  /\ fn' = [fn EXCEPT !.pc = "returned", !.done = <<"conv", "copy", "move">>]
  /\ UNCHANGED poolvars

ScanNext == ScanOutput \/ ScanFinish

ScanSpec == ScanInit /\ [][ScanNext]_vars

\* the line holds pattern i in some letter case
HoldsPattern(text, i) == text \in {error_patterns[i], PatLower[i], PatUpper[i]}

Matching(lines) ==
  {i \in 1..Len(error_patterns) : \E k \in 1..Len(lines) : HoldsPattern(lines[k], i)}

ProgressTotal_OffByOne(start_id_, end_id_) == (end_id_ - start_id_) * 3

\* line 192
ProgressTotal(start_id_, end_id_) == (end_id_ - start_id_ + 1) * 3

\* line 193: sum(1 for mid in range(start_id, end_id + 1) for m in METHODS if ...)
ProgressDone(start_id_, end_id_, checkpoint) ==
  Cardinality({u \in (start_id_..end_id_) \X MethodSet :
                 is_completed(u[1], u[2], checkpoint)})

\* run_batch_manager.py:191-195; raised: done / total with total = 0
print_progress(start_id_, end_id_, checkpoint) ==
  [done |-> ProgressDone(start_id_, end_id_, checkpoint),
   total |-> ProgressTotal(start_id_, end_id_),
   raised |-> ProgressTotal(start_id_, end_id_) = 0]

ProgIds == 1..(MaxId + 1)

ProgInit ==
  /\ IdleButFiles
  /\ molfiles \in SUBSET ((ProgIds \X {"mp2", "ccsd"}) \X {"out"})
  /\ \E s \in ProgIds, e \in 0..(MaxId + 1), checkpoint \in CompDicts :
       /\ s <= e + 1
       /\ fn = [op |-> "progress", pc |-> "start", start_id |-> s, end_id |-> e,
                checkpoint |-> checkpoint, done |-> 0, total |-> 0, raised |-> FALSE]

\* main, lines 208 and 244
PrintProgress ==
  /\ fn.pc = "start"
  /\ LET r == print_progress(fn.start_id, fn.end_id, fn.checkpoint)
     IN fn' = [fn EXCEPT !.pc = "returned", !.done = r.done, !.total = r.total,
                         !.raised = r.raised]
  /\ UNCHANGED poolvars

ProgSpec == ProgInit /\ [][PrintProgress]_vars

\* C21: for a range start <= end print_progress reports done = the number of
\* (id, method) of the range with the output on disk or a true checkpoint entry,
\* total = (end-start+1) * |METHODS|, 0 <= done <= total, and changes neither
\* the checkpoint mapping nor the checkpoint file nor any artifact file.
C21_ProgressCounts ==
  [][(fn.op = "progress" /\ fn.pc = "start" /\ fn'.pc = "returned"
        /\ fn.start_id <= fn.end_id) =>
       /\ ~fn'.raised
       /\ fn'.total = (fn.end_id - fn.start_id + 1) * Len(METHODS)
       /\ fn'.done = Cardinality(
            {u \in Units \cup (ProgIds \X MethodSet) :
               /\ fn.start_id <= u[1] /\ u[1] <= fn.end_id
               /\ (<<u, "out">> \in molfiles \/ MapsToTrue(fn.checkpoint, u[1], u[2]))})
       /\ 0 <= fn'.done /\ fn'.done <= fn'.total
       /\ fn'.checkpoint = fn.checkpoint
       /\ UNCHANGED <<molfiles, scratch, finalOut, finalMkl, ckfile>>]_vars

C21_Witness ==
  /\ fn.op = "progress" /\ fn.pc = "returned"
  /\ fn.start_id < fn.end_id
  /\ 0 < fn.done /\ fn.done < fn.total
  /\ \E u \in Units : <<u, "out">> \in molfiles /\ CkFlag(fn.checkpoint, u[1], u[2])

\* --------------------------------------------- load_checkpoint in MainSpec
\* MainInit starts main with no checkpoint file, with the file an earlier batch
\* saved, with an empty file, or with a file that has text after the mapping.

\* C22: load_checkpoint gives main the empty mapping when the file is absent and
\* the persisted mapping when it parses; when it does not parse, main ends with
\* the error before anything is staged or started; the file is left as it was.
C22_LoadCheckpoint ==
  [][/\ (fn.op = "main" /\ mpc = "load" /\ mpc' # "load") =>
          /\ ckfile' = ckfile
          /\ IF ~ckfile.exists THEN mpc' = "progress" /\ mainck' = <<>>
             ELSE IF JsonLoad(ckfile.data).ok
                  THEN mpc' = "progress" /\ JsonDump(mainck') = ckfile.data
                  ELSE /\ mpc' = "ended"
                       /\ fn'.exit = "1"
                       /\ scratch' = {} /\ started' = 0 /\ q' = <<>>
     /\ (fn.op = "main" /\ mpc = "ended") => UNCHANGED vars]_vars

C22_Witness ==
  /\ fn.op = "main" /\ mpc = "ended"
  /\ fn.phases = <<"argv", "dirs", "JSONDecodeError">>
  /\ ckfile.exists /\ Len(ckfile.data) > 2
  /\ scratch = {} /\ started = 0

\* ------------------------------------- save_checkpoint then load_checkpoint
\* One process saves a mapping over whatever the file held and loads it again,
\* then saves what it loaded and loads once more.
MaxRounds == 2

\* run_batch_manager.py:52-55, called by one process alone
save_checkpoint(file, data) == DumpTo(OpenForWrite(file), data)

\* what the checkpoint file may hold before the save
OldFiles ==
  {[exists |-> FALSE, data |-> <<>>],
   [exists |-> TRUE, data |-> <<>>],
   [exists |-> TRUE, data |-> <<"{", "}">>],
   [exists |-> TRUE,
    data |-> JsonDump(<< <<"1", << <<"mp2", TRUE>> >> >>, <<"2", << <<"ccsd", TRUE>> >> >> >>)]}

RoundInit ==
  /\ PoolIdle
  /\ \E checkpoint \in CompDicts, old \in OldFiles :
       fn = [op |-> "roundtrip", pc |-> "save", checkpoint |-> checkpoint,
             old |-> old, file |-> old, loaded |-> <<>>, rounds |-> 0]

RoundSave ==
  /\ fn.pc = "save"
  /\ fn' = [fn EXCEPT !.pc = "load", !.file = save_checkpoint(fn.file, fn.checkpoint)]
  /\ UNCHANGED poolvars

\* load_checkpoint; the next round saves what this one loaded
RoundLoad ==
  /\ fn.pc = "load"
  /\ LET loaded == load_checkpoint(fn.file)
     IN fn' = [fn EXCEPT !.pc = IF fn.rounds + 1 < MaxRounds THEN "save" ELSE "done",
                         !.loaded = loaded,
                         !.checkpoint = loaded,
                         !.rounds = @ + 1]
  /\ UNCHANGED poolvars

RoundNext == RoundSave \/ RoundLoad

RoundSpec == RoundInit /\ [][RoundNext]_vars

\* C23: what load_checkpoint returns after save_checkpoint is the mapping that
\* was saved, and saving what was loaded leaves the file as it is.
C23_RoundTrip ==
  [][fn.op = "roundtrip" =>
       /\ (fn.pc = "load" /\ fn'.pc # "load") => fn'.loaded = fn.checkpoint
       /\ (fn.pc = "save" /\ fn'.pc = "load" /\ fn.rounds >= 1) => fn'.file = fn.file]_vars

C23_Witness ==
  /\ fn.op = "roundtrip" /\ fn.pc = "done" /\ fn.rounds = MaxRounds
  /\ Len(fn.loaded) = 1
  /\ Len(fn.old.data) > Len(fn.file.data)
  /\ \E i \in 1..Len(fn.loaded) : fn.loaded[i][2] = << <<"mp2", FALSE>> >>

\* ---------------------------------------- clean_work_dir.py, the cleanup tool
\* The directories of the work root as sets of entry names. fn.dirs maps a
\* directory to its entries; a directory that does not exist is not in fn.there.
ORCA_FILES_DIR == "orca_files"
FINAL_OUT_DIR == "orca_out"
FINAL_MKL_DIR == "orca_mkl"
CleanDirs == {ORCA_FILES_DIR, FINAL_OUT_DIR, FINAL_MKL_DIR}

EntriesOf(dir) ==
  CASE dir = ORCA_FILES_DIR -> {"1_mp2.inp", "rankfile_slot0.txt"}
    [] dir = FINAL_OUT_DIR -> {"1_mp2.out", "1_ccsd.out"}
    [] dir = FINAL_MKL_DIR -> {"1_mp2.mkl", "1_ccsd.mkl"}

\* the answers typed at the prompt of line 35
Responses == {"y", "Y", "n", ""}

\* response.lower()
LowerResponse(r) == IF r = "Y" THEN "y" ELSE r

\* the directory clean_orca_files lists and empties, lines 19-25
CleanTarget == FINAL_OUT_DIR

CleanInit ==
  /\ PoolIdle
  /\ \E there \in SUBSET CleanDirs, tty \in BOOLEAN :
     \E dirs \in [CleanDirs -> SUBSET UNION {EntriesOf(d) : d \in CleanDirs}] :
       /\ \A d \in CleanDirs :
            dirs[d] \subseteq (IF d \in there THEN EntriesOf(d) ELSE {})
       /\ fn = [op |-> "clean", pc |-> "exists", there |-> there, dirs |-> dirs,
                before |-> dirs, tty |-> tty, asked |-> FALSE, response |-> "",
                files |-> {}, deleted_count |-> 0, errors |-> 0]

\* lines 19-29: the target is missing or empty, or its entries are listed
CleanList ==
  /\ fn.pc = "exists"
  /\ fn' = IF CleanTarget \notin fn.there \/ fn.dirs[CleanTarget] = {}
           THEN [fn EXCEPT !.pc = "returned"]
           ELSE [fn EXCEPT !.pc = "confirm", !.files = fn.dirs[CleanTarget]]
  /\ UNCHANGED poolvars

\* lines 34-38: the prompt is shown only when stdin is a terminal
CleanConfirm ==
  /\ fn.pc = "confirm"
  /\ IF fn.tty
     THEN \E response \in Responses :
            fn' = [fn EXCEPT !.asked = TRUE, !.response = response,
                             !.pc = IF LowerResponse(response) # "y"
                                    THEN "returned" ELSE "delete"]
     ELSE fn' = [fn EXCEPT !.pc = "delete"]
  /\ UNCHANGED poolvars

\* lines 43-52: one turn of the loop; a failed removal is counted and skipped
CleanDelete ==
  /\ fn.pc = "delete"
  /\ fn.files # {}
  /\ \E f \in fn.files :
       \/ fn' = [fn EXCEPT !.files = @ \ {f},
                           !.dirs[CleanTarget] = @ \ {f},
                           !.deleted_count = @ + 1]
       \/ fn' = [fn EXCEPT !.files = @ \ {f}, !.errors = @ + 1]
  /\ UNCHANGED poolvars

\* line 54
CleanReport ==
  /\ fn.pc = "delete"
  /\ fn.files = {}
  /\ fn' = [fn EXCEPT !.pc = "returned"]
  /\ UNCHANGED poolvars

CleanNext == CleanList \/ CleanConfirm \/ CleanDelete \/ CleanReport

CleanSpec == CleanInit /\ [][CleanNext]_vars

\* C24: clean_orca_files removes entries of orca_files only, leaves orca_out and
\* orca_mkl as they were, and removes nothing when the prompt was answered with
\* anything other than 'y'.
C24_OnlyScratchCleaned ==
  fn.op = "clean" =>
    /\ fn.dirs[FINAL_OUT_DIR] = fn.before[FINAL_OUT_DIR]
    /\ fn.dirs[FINAL_MKL_DIR] = fn.before[FINAL_MKL_DIR]
    /\ (fn.asked /\ fn.response # "y") => fn.dirs = fn.before

\* ------------------------------------------- binding files of the pool (Spec)
\* worker i is started with slot_idx = i (run_batch_manager.py:235-237) and
\* its solver runs with the binding file of that slot while wpc[i] = "solver"
SolverRuns(w) == script = "base" /\ wpc[w] = "solver"

\* the binding files that are there before and not after the step, or the reverse
RankfilesTouched == (rankfiles \ rankfiles') \cup (rankfiles' \ rankfiles)

\* C25: the binding-file paths of distinct workers differ, a step of worker w
\* creates or deletes no binding file but the one of slot w, and the binding
\* file of a worker whose solver is running is there before and after every step
\* of another worker.
C25_BindingFilesApart ==
  [][\A w \in Workers :
       wpc'[w] # wpc[w] =>
         /\ RankfilesTouched \subseteq {RankfilePath(w)}
         /\ \A v \in Workers \ {w} :
              /\ RankfilePath(v) # RankfilePath(w)
              /\ SolverRuns(v) => /\ RankfilePath(v) \in rankfiles
                                  /\ RankfilePath(v) \in rankfiles']_vars

\* one worker has removed its binding file while another's solver is running
C25_Witness ==
  \E v, w \in Workers :
    /\ v # w
    /\ SolverRuns(v) /\ RankfilePath(v) \in rankfiles
    /\ wpc[w] = "dump" /\ RankfilePath(w) \notin rankfiles

\* ------------------------------------------------ the move loop of the pool
\* molecule numbers around the width of the :06d field
NameIds == {1, 2, 10, 12, 100000, 999999, 1000000, 1000001}

\* no job basename is a prefix of a file name of another unit
PrefixFree ==
  \A u \in NameIds \X MethodSet, v \in NameIds \X MethodSet, ext \in Exts :
    u # v => ~IsPrefix(JobBase(u[1], u[2]), FileName(<<v, ext>>))

\* C26: the job basename of a unit is a prefix of no file name of another unit,
\* and a step of worker w takes from the scratch directory, and puts into a
\* molecule directory, only files of the unit w is running.
C26_MoveBackOwnFiles ==
  [][/\ PrefixFree
     /\ \A w \in Workers :
          wpc'[w] # wpc[w] =>
            \A f \in (scratch \ scratch') \cup (molfiles' \ molfiles) : f[1] = cur[w]]_vars

\* worker w has moved the files of 1/ccsd while v runs 1/ccsdt on staged files
C26_Witness ==
  \E v, w \in Workers :
    /\ cur[w] = <<1, "ccsd">> /\ log[cur[w]].pp
    /\ <<cur[w], "inp">> \in molfiles /\ <<cur[w], "inp">> \notin scratch
    /\ cur[v] = <<1, "ccsdt">> /\ wpc[v] = "solver"
    /\ {<<cur[v], "inp">>, <<cur[v], "out">>} \subseteq scratch

\* C27: once the post-processing of a unit has run to its end, no file whose
\* name starts with the unit's job basename is in the scratch directory.
C27_ScratchLeftClean ==
  \A u \in Units :
    log[u].pp => \A f \in scratch : ~IsPrefix(JobBase(u[1], u[2]), FileName(f))

\* C28: when the solver has left a .gbw file and orca_2mkl has failed (it ran
\* and wrote no .mkl, or it could not be started), run_task still copies the
\* output, moves the unit's files and, in run_batch_manager.py, deletes the
\* binding file and marks the unit in the checkpoint it goes on to save.
C28_ConversionFailureNonFatal ==
  [][\A w \in Workers :
       LET u == cur[w]
           after == scratch' \cup molfiles'
       IN (wpc[w] = "solver" /\ wpc'[w] # "solver"
           /\ <<u, "gbw">> \in after /\ log'[u].conv \in {"failed", "raised"}) =>
            /\ log'[u].pp
            /\ u \in finalOut'
            /\ {<<u, "out">>, <<u, "gbw">>} \subseteq molfiles'
            /\ script = "base" =>
                 /\ RankfilePath(w) \notin rankfiles'
                 /\ CkFlag(ckmem'[w], u[1], u[2])
                 /\ wpc'[w] = "dump"]_vars

\* C29: a worker gets a sentinel only from a queue that holds no work unit, and
\* whenever a worker has left its loop through a sentinel every unit of the
\* range has been dequeued.
C29_SentinelsLast ==
  [][/\ \A w \in Workers :
          (wpc[w] = "get" /\ wpc'[w] = "exited") =>
            /\ QueueItem(q) = None
            /\ \A k \in 1..Len(q) : q[k] = None
     /\ (\E w \in Workers : wpc'[w] = "exited") =>
          \A u \in RangeUnits :
            /\ log'[u].deq >= 1
            /\ \A k \in 1..Len(q') : q'[k] # u]_vars

\* the first worker has left through a sentinel while another still runs a unit
C29_Witness ==
  \E v, w \in Workers :
    /\ wpc[w] = "exited"
    /\ wpc[v] = "solver" /\ cur[v] \in RangeUnits
    /\ q # <<>> /\ \A k \in 1..Len(q) : q[k] = None

\* C30: whenever the checkpoint file parses and records a unit as true, the
\* unit's .out file is in its molecule directory, so that is_completed holds for
\* the unit with an empty checkpoint as well.
C30_EntriesBackedByDisk ==
  \A u \in Units :
    Records(ckfile, u) =>
      /\ <<u, "out">> \in molfiles
      /\ is_completed(u[1], u[2], <<>>)

\* the file records a unit this batch ran, whose solver ended with an error
C30_Witness ==
  \E u \in Units :
    /\ Records(ckfile, u) /\ ~CkFlag(mainck, u[1], u[2])
    /\ log[u].runs = 1 /\ log[u].saved /\ log[u].ret = "nonzero"
    /\ <<u, "out">> \in molfiles
====
